---- MODULE Spec2Model ----
(***************************************************************************)
(* Model of notebooks/visclaw/pcolorcells.ipynb, executed top to bottom    *)
(* (the Makefile runs `jupyter nbconvert --execute`, which stops at the    *)
(* first cell that raises).                                                *)
(*                                                                         *)
(* Two independent parts of the notebook are modelled:                     *)
(*   Spec     cells on the sample data (xcenter, ycenter, Z): pcolormesh   *)
(*            with centers, the center-to-edge conversion, pcolorcells.    *)
(*   SpecKml  cells on the topography grid: extent2, pcolorcells_for_kml,  *)
(*            png2kml.                                                     *)
(*                                                                         *)
(* Coordinates are exact fixed-point numbers: an integer counts quanta of  *)
(* an arbitrary length unit.  Cell spacings are an even number of quanta,  *)
(* so that halving a spacing is exact, as it is for the notebook's data.   *)
(* Floating-point rounding is not modelled.                                *)
(***************************************************************************)
EXTENDS Integers, Sequences, FiniteSets, TLC

VARIABLES pc, err,
          xcenter, ycenter, Zshape, dx, dy, xedge, yedge, drawn,
          topo, extent2, kml, overlay

vars == <<pc, err, xcenter, ycenter, Zshape, dx, dy, xedge, yedge, drawn,
          topo, extent2, kml, overlay>>

sampleVars == <<xcenter, ycenter, Zshape, dx, dy, xedge, yedge, drawn>>
kmlVars == <<topo, extent2, kml, overlay>>

(* ------------------------------ bounds --------------------------------- *)
MaxLen == 4
MaxStart == 2
MaxStep == 2
MaxCoord == 4
MaxDpc == 10

Starts == (0 - MaxStart)..MaxStart
Steps == {2 * k : k \in 1..MaxStep}
Coords == {2 * k : k \in 0..MaxCoord}
Dpcs == 1..MaxDpc

Increasing(c) == \A i \in 1..(Len(c) - 1) : c[i] < c[i + 1]
Uniform(c) == \A i \in 1..(Len(c) - 1) : c[i + 1] - c[i] = c[2] - c[1]

\* the coordinate sequences a topography grid may hold
TopoAxes == {c \in UNION {[1..n -> Coords] : n \in 2..MaxLen} : Increasing(c)}

(* --------------------------- numeric helpers --------------------------- *)
Half(v) == v \div 2
Last(c) == c[Len(c)]

\* numpy.linspace(start, stop, num) for num >= 2
linspace(start, stop, num) ==
    [k \in 1..num |-> start + (k - 1) * ((stop - start) \div (num - 1))]

\* numpy.arange(start, stop, step), step > 0: ceil((stop - start) / step)
\* values start + k * step, the stop value excluded
ArangeFloor(start, stop, step) ==
    IF stop <= start THEN <<>>
    ELSE [k \in 1..((stop - start) \div step) |-> start + (k - 1) * step]

arange(start, stop, step) ==
    IF stop <= start THEN <<>>
    ELSE [k \in 1..((stop - start + step - 1) \div step) |-> start + (k - 1) * step]

\* X, Y = meshgrid(x, y); Z = X + Y : the shape <<rows, columns>> of X, Y and Z
ZShapeTransposed(x, y) == <<Len(x), Len(y)>>

ZShape(x, y) == <<Len(y), Len(x)>>

\* dx = x[1] - x[0]  (python indices are 0-based, sequences here 1-based)
DeltaLastPair(c) == c[Len(c)] - c[Len(c) - 1]

Delta(c) == c[2] - c[1]

\* xedge = np.arange(x[0] - 0.5*dx, x[-1] + dx, dx)
CenterToEdgeIdentity(c) == c

CenterToEdge(c) == arange(c[1] - Half(Delta(c)), Last(c) + Delta(c), Delta(c))

(* ------------------------------ pcolormesh ----------------------------- *)
\* pcolormesh(xs, ys, Z) with Z of shape zs.  The coordinates are used as
\* cell edges.  With as many coordinates as Z has columns (rows) the last
\* column (row) of Z is ignored; any other mismatch raises TypeError.
pcolormesh(call, xs, ys, zs) ==
    IF zs[2] \in {Len(xs), Len(xs) - 1} /\ zs[1] \in {Len(ys), Len(ys) - 1}
    THEN [err |-> "none", call |-> call, xe |-> xs, ye |-> ys, zshape |-> zs,
          rows |-> Len(ys) - 1, cols |-> Len(xs) - 1]
    ELSE [err |-> "TypeError", call |-> call, xe |-> xs, ye |-> ys, zshape |-> zs,
          rows |-> 0, cols |-> 0]

\* plottools.pcolorcells(cx, cy, Z): coordinates with the shape of Z are cell
\* centers and are converted to edges, otherwise they are taken as edges
pcolorcells(call, cx, cy, zs) ==
    LET xe == IF Len(cx) = zs[2] THEN CenterToEdge(cx) ELSE cx
        ye == IF Len(cy) = zs[1] THEN CenterToEdge(cy) ELSE cy
    IN  pcolormesh(call, xe, ye, zs)

\* run the calls of one cell in order; the first that raises stops the notebook
RECURSIVE RunCalls(_, _)
RunCalls(calls, log) ==
    IF calls = <<>> THEN [err |-> "none", log |-> log]
    ELSE IF Head(calls).err # "none" THEN [err |-> Head(calls).err, log |-> log]
    ELSE RunCalls(Tail(calls), Append(log, Head(calls)))

(* --------------------------- sample-data cells ------------------------- *)
Unset ==
    /\ err = "none"
    /\ xcenter = <<>> /\ ycenter = <<>> /\ Zshape = <<0, 0>>
    /\ dx = 0 /\ dy = 0 /\ xedge = <<>> /\ yedge = <<>>
    /\ drawn = <<>>
    /\ topo = [x |-> <<>>, y |-> <<>>, delta |-> <<0, 0>>, Zshape |-> <<0, 0>>]
    /\ extent2 = <<0, 0, 0, 0>>
    /\ kml = [dpc |-> 0, pixel_width |-> 0, pixel_height |-> 0]
    /\ overlay = [xden |-> 0, yden |-> 0, cols |-> <<>>, rows |-> <<>>]

Init == pc = "cell5" /\ Unset

Finish(r, next) ==
    /\ err' = r.err
    /\ drawn' = r.log
    /\ pc' = IF r.err = "none" THEN next ELSE "failed"

\* xcenter = linspace(..); ycenter = linspace(..); X,Y = meshgrid(..); Z = X+Y
\* pcolormesh(X,Y,Z)
Cell5 ==
    /\ pc = "cell5"
    /\ \E x0 \in Starts, sx \in Steps, m \in 2..MaxLen,
          y0 \in Starts, sy \in Steps, n \in 2..MaxLen :
          LET xc == linspace(x0, x0 + (m - 1) * sx, m)
              yc == linspace(y0, y0 + (n - 1) * sy, n)
          IN  /\ xcenter' = xc
              /\ ycenter' = yc
              /\ Zshape' = ZShape(xc, yc)
              /\ Finish(RunCalls(<<pcolormesh("pcolormesh_centers", xc, yc,
                                              ZShape(xc, yc))>>, drawn), "cell7")
    /\ UNCHANGED <<dx, dy, xedge, yedge>>
    /\ UNCHANGED kmlVars

\* x = X[0,:]; y = Y[:,0]; dx, dy; xedge, yedge; pcolormesh(xedge,yedge,Z)
Cell7 ==
    /\ pc = "cell7"
    /\ dx' = Delta(xcenter)
    /\ dy' = Delta(ycenter)
    /\ xedge' = CenterToEdge(xcenter)
    /\ yedge' = CenterToEdge(ycenter)
    /\ Finish(RunCalls(<<pcolormesh("pcolormesh_edges", CenterToEdge(xcenter),
                                    CenterToEdge(ycenter), Zshape)>>, drawn), "cell9")
    /\ UNCHANGED <<xcenter, ycenter, Zshape>>
    /\ UNCHANGED kmlVars

\* plottools.pcolorcells(xcenter, ycenter, Z); plottools.pcolorcells(xedge, yedge, Z)
Cell9 ==
    /\ pc = "cell9"
    /\ Finish(RunCalls(<<pcolorcells("pcolorcells_centers", xcenter, ycenter, Zshape),
                         pcolorcells("pcolorcells_edges", xedge, yedge, Zshape)>>,
                       drawn), "cell11")
    /\ UNCHANGED <<xcenter, ycenter, Zshape, dx, dy, xedge, yedge>>
    /\ UNCHANGED kmlVars

\* plottools.pcolorcells(X, Y, Z)
Cell11 ==
    /\ pc = "cell11"
    /\ Finish(RunCalls(<<pcolorcells("pcolorcells_centers_2d", xcenter, ycenter,
                                     Zshape)>>, drawn), "cell13")
    /\ UNCHANGED <<xcenter, ycenter, Zshape, dx, dy, xedge, yedge>>
    /\ UNCHANGED kmlVars

\* plottools.pcolorcells(X, Y, Z[:-1,:-1])
Cell13 ==
    /\ pc = "cell13"
    /\ Finish(RunCalls(<<pcolorcells("pcolorcells_edges_2d", xcenter, ycenter,
                                     <<Zshape[1] - 1, Zshape[2] - 1>>)>>, drawn),
              "done")
    /\ UNCHANGED <<xcenter, ycenter, Zshape, dx, dy, xedge, yedge>>
    /\ UNCHANGED kmlVars

Next == Cell5 \/ Cell7 \/ Cell9 \/ Cell11 \/ Cell13

Spec == Init /\ [][Next]_vars

(* ---------------------------- topography cells ------------------------- *)
InitKml == pc = "cell19" /\ Unset

\* topo = topotools.read_netcdf(..): cell centers topo.x, topo.y, the spacing
\* topo.delta and the data topo.Z on the grid topo.X, topo.Y
Cell19 ==
    /\ pc = "cell19"
    /\ \E tx \in TopoAxes, ty \in TopoAxes :
          topo' = [x |-> tx, y |-> ty, delta |-> <<Delta(tx), Delta(ty)>>,
                   Zshape |-> ZShape(tx, ty)]
    /\ pc' = "cell24"
    /\ UNCHANGED <<err, extent2, kml, overlay>>
    /\ UNCHANGED sampleVars

\* x1 = topo.x[0] - topo.delta[0]/2.; x2 = topo.x[-1] + topo.delta[0]/2.
\* y1 = topo.y[0] - topo.delta[1]/2.; y2 = topo.y[-1] + topo.delta[1]/2.
Extent2Swapped(t) ==
    <<t.x[1] + Half(t.delta[1]), Last(t.x) - Half(t.delta[1]),
      t.y[1] + Half(t.delta[2]), Last(t.y) - Half(t.delta[2])>>

Extent2Centers(t) == <<t.x[1], Last(t.x), t.y[1], Last(t.y)>>

Extent2(t) ==
    <<t.x[1] - Half(t.delta[1]), Last(t.x) + Half(t.delta[1]),
      t.y[1] - Half(t.delta[2]), Last(t.y) + Half(t.delta[2])>>

Cell24 ==
    /\ pc = "cell24"
    /\ extent2' = Extent2(topo)
    /\ pc' = "cell28"
    /\ UNCHANGED <<err, topo, kml, overlay>>
    /\ UNCHANGED sampleVars

\* kmltools.pcolorcells_for_kml(topo.X, topo.Y, topo.Z, dpc=..): only the cells
\* are displayed (no axes, no margins), dpc dots for each cell
KmlPixels(zs, d) == [dpc |-> d, pixel_width |-> zs[2] * d, pixel_height |-> zs[1] * d]

Cell28 ==
    /\ pc = "cell28"
    /\ \E d \in Dpcs : kml' = KmlPixels(topo.Zshape, d)
    /\ pc' = "cell30"
    /\ UNCHANGED <<err, topo, extent2, overlay>>
    /\ UNCHANGED sampleVars

\* The image of pixels wide pixels is stretched linearly over [lo, hi]: the
\* coordinate e falls at pixel PixelNum / (hi - lo), kept as a fraction.
PixelNum(e, lo, pixels) == (e - lo) * pixels

\* the boundaries of the cells centered at the points c[i], d wide, as pixels
CellSpans(c, d, lo, pixels) ==
    [i \in 1..Len(c) |-> [lo |-> PixelNum(c[i] - Half(d), lo, pixels),
                          hi |-> PixelNum(c[i] + Half(d), lo, pixels)]]

\* kmltools.png2kml(extent=extent2, png_files=['PStopo.png'], ..)
Cell30 ==
    /\ pc = "cell30"
    /\ overlay' = [xden |-> extent2[2] - extent2[1],
                   yden |-> extent2[4] - extent2[3],
                   cols |-> CellSpans(topo.x, topo.delta[1], extent2[1],
                                      kml.pixel_width),
                   rows |-> CellSpans(topo.y, topo.delta[2], extent2[3],
                                      kml.pixel_height)]
    /\ pc' = "done"
    /\ UNCHANGED <<err, topo, extent2, kml>>
    /\ UNCHANGED sampleVars

NextKml == Cell19 \/ Cell24 \/ Cell28 \/ Cell30

SpecKml == InitKml /\ [][NextKml]_vars

(* ------------------------------- claims -------------------------------- *)
HasExtent == pc \in {"cell28", "cell30", "done"}
HasPixels == pc \in {"cell30", "done"}
HasEdges == pc \in {"cell9", "cell11", "cell13", "done"}

\* C1: once pcolorcells_for_kml has run, the image is exactly m * dpc pixels
\* wide and n * dpc pixels high, m and n being the numbers of x and y cell
\* centers (not m - 1, n - 1), for every strictly increasing grid and dpc >= 1.
C1_PixelDimensions ==
    HasPixels =>
        /\ kml.pixel_width = Len(topo.x) * kml.dpc
        /\ kml.pixel_height = Len(topo.y) * kml.dpc
        /\ (Len(topo.x) = 2 /\ Len(topo.y) = 2 /\ kml.dpc = 1
               => kml.pixel_width = 2 /\ kml.pixel_height = 2)
        /\ (Len(topo.x) = 4 /\ kml.dpc = 10 => kml.pixel_width = 40)

C1_Witness ==
    /\ HasPixels
    /\ Len(topo.x) = 4 /\ Len(topo.y) = 2 /\ kml.dpc = 10
    /\ kml.pixel_width = 40 /\ kml.pixel_height = 20

\* C2: for every strictly increasing grid the bounding box is
\* x[0] - dx/2, x[-1] + dx/2, y[0] - dy/2, y[-1] + dy/2 with dx = x[1] - x[0],
\* dy = y[1] - y[0]; it strictly encloses the outermost centers, and on a
\* uniform grid it is the first and last edge of the outermost cells.
C2_BoundingBox ==
    HasExtent =>
        LET x == topo.x
            y == topo.y
        IN  /\ 2 * extent2[1] = 2 * x[1] - (x[2] - x[1])
            /\ 2 * extent2[2] = 2 * Last(x) + (x[2] - x[1])
            /\ 2 * extent2[3] = 2 * y[1] - (y[2] - y[1])
            /\ 2 * extent2[4] = 2 * Last(y) + (y[2] - y[1])
            /\ extent2[1] < x[1] /\ x[1] < Last(x) /\ Last(x) < extent2[2]
            /\ extent2[3] < y[1] /\ y[1] < Last(y) /\ Last(y) < extent2[4]
            /\ (Uniform(x) => /\ extent2[1] = CenterToEdge(x)[1]
                              /\ extent2[2] = Last(CenterToEdge(x)))
            /\ (Uniform(y) => /\ extent2[3] = CenterToEdge(y)[1]
                              /\ extent2[4] = Last(CenterToEdge(y)))

C2_Witness ==
    /\ HasExtent
    /\ Len(topo.x) = 3 /\ ~Uniform(topo.x) /\ Uniform(topo.y)
    /\ topo.delta[1] = 4
    /\ extent2[1] = topo.x[1] - 2

\* every cell boundary falls on the whole pixel i * dpc: cell i (counted from 0)
\* covers the pixels [i * dpc, (i + 1) * dpc)
WholePixelCells(spans, den, d) ==
    \A i \in 1..Len(spans) :
        /\ spans[i].lo = (i - 1) * d * den
        /\ spans[i].hi = i * d * den

\* C3 as stated: for every strictly increasing grid and dpc >= 1, stretching
\* the image over the bounding box gives every cell exactly dpc x dpc pixels
\* with whole-pixel boundaries.
C3_AnyGridWholePixels ==
    pc = "done" =>
        /\ WholePixelCells(overlay.cols, overlay.xden, kml.dpc)
        /\ WholePixelCells(overlay.rows, overlay.yden, kml.dpc)

\* C3 amended: the same, for grids that are uniformly spaced along both axes.
C3_UniformGridWholePixels ==
    pc = "done" /\ Uniform(topo.x) /\ Uniform(topo.y) =>
        /\ WholePixelCells(overlay.cols, overlay.xden, kml.dpc)
        /\ WholePixelCells(overlay.rows, overlay.yden, kml.dpc)

C3_Witness ==
    /\ pc = "done" /\ Uniform(topo.x) /\ Uniform(topo.y)
    /\ Len(topo.x) = 4 /\ Len(topo.y) = 3 /\ kml.dpc = 3
    /\ overlay.cols[4].hi = 12 * overlay.xden
    /\ overlay.rows[3].lo = 6 * overlay.yden

EdgesOf(e, c, d) ==
    /\ Len(e) = Len(c) + 1
    /\ \A k \in 1..Len(e) : 2 * e[k] = 2 * c[1] - d + 2 * (k - 1) * d
    /\ Increasing(e)
    /\ 2 * e[1] = 2 * c[1] - d
    /\ 2 * Last(e) = 2 * Last(c) + d
    /\ \A i \in 1..Len(c) : e[i] + e[i + 1] = 2 * c[i]

\* C9: arange(x[0] - 0.5*dx, x[-1] + dx, dx) on m uniformly spaced centers
\* gives exactly m + 1 strictly increasing edges x[0] - dx/2 + k*dx, from
\* x[0] - dx/2 to x[-1] + dx/2, each center the midpoint of its two edges;
\* likewise for y.
C9_CenterToEdge ==
    /\ pc # "failed"
    /\ HasEdges =>
          /\ dx = xcenter[2] - xcenter[1]
          /\ dy = ycenter[2] - ycenter[1]
          /\ EdgesOf(xedge, xcenter, dx)
          /\ EdgesOf(yedge, ycenter, dy)

C9_Witness ==
    /\ HasEdges
    /\ xcenter = <<1, 3, 5, 7>> /\ xedge = <<0, 2, 4, 6, 8>>
    /\ Len(ycenter) = 3 /\ Len(yedge) = 4 /\ dy = 4

IsCentersCall(r) == r.call \in {"pcolorcells_centers", "pcolorcells_centers_2d"}
IsEdgesCall(r) == r.call \in {"pcolorcells_edges", "pcolorcells_edges_2d"}

\* C10: pcolorcells takes coordinates shaped like Z as centers and converts
\* them to edges, and coordinates with one more row and column than Z as edges,
\* unchanged; either way the mesh drawn has one more edge than Z has cells
\* along each axis and every row and column of Z is plotted, whereas
\* pcolormesh called with the centers drops the last row and column.
C10_PcolorcellsByShape ==
    /\ pc # "failed"
    /\ \A k \in 1..Len(drawn) :
          LET r == drawn[k]
          IN  /\ IsCentersCall(r) =>
                    /\ r.zshape = <<Len(ycenter), Len(xcenter)>>
                    /\ r.xe = xedge /\ r.ye = yedge
              /\ r.call = "pcolorcells_edges" =>
                    /\ r.zshape = <<Len(yedge) - 1, Len(xedge) - 1>>
                    /\ r.xe = xedge /\ r.ye = yedge
              /\ r.call = "pcolorcells_edges_2d" =>
                    /\ r.zshape = <<Len(ycenter) - 1, Len(xcenter) - 1>>
                    /\ r.xe = xcenter /\ r.ye = ycenter
              /\ IsCentersCall(r) \/ IsEdgesCall(r) =>
                    /\ Len(r.xe) = r.zshape[2] + 1
                    /\ Len(r.ye) = r.zshape[1] + 1
                    /\ r.cols = r.zshape[2]
                    /\ r.rows = r.zshape[1]
              /\ r.call = "pcolormesh_centers" =>
                    /\ r.cols = r.zshape[2] - 1
                    /\ r.rows = r.zshape[1] - 1

C10_Witness ==
    /\ pc = "done"
    /\ Len(drawn) = 6
    /\ Zshape = <<3, 4>>
    /\ drawn[3].call = "pcolorcells_centers" /\ Len(drawn[3].xe) = 5
    /\ drawn[3].cols = 4 /\ drawn[3].rows = 3
    /\ drawn[6].call = "pcolorcells_edges_2d" /\ drawn[6].zshape = <<2, 3>>
    /\ drawn[6].xe = xcenter /\ drawn[6].cols = 3
    /\ drawn[1].cols = 3

====
